---- MODULE Spec2Model ----
(***************************************************************************)
(* Model of ThrustTestingApp (src/Gui_For_testing.py): the state held by   *)
(* the window (data, current_unit, the two result labels, the plot axes)   *)
(* and the four button handlers load_csv, toggle_units, calculate_average  *)
(* and show_dataframe.                                                     *)
(*                                                                         *)
(* Numbers are exact rationals [n, d] with d > 0, and d = 0 for NaN.  The  *)
(* values of the model are small integers, their sixteenths and means of   *)
(* up to three of them; on those float64 division by 16 is exact and the   *)
(* two-decimal formatting of the float mean equals that of the rational    *)
(* mean.                                                                   *)
(***************************************************************************)
EXTENDS Integers, Sequences, FiniteSets, TLC

VARIABLES data, current_unit, max_label, avg_result_label, plot, dialog, crashed

vars == <<data, current_unit, max_label, avg_result_label, plot, dialog, crashed>>

(***************************************************************************)
(* Bounds and input domains                                                *)
(***************************************************************************)
MaxRows == 1

Times == {0, 2}

Thrusts == {-8, 24}

Texts == {"0", "1", "2", "nan", "abc"}

(***************************************************************************)
(* Numbers                                                                 *)
(***************************************************************************)
Abs(x) == IF x < 0 THEN -x ELSE x

RECURSIVE GCD(_, _)
GCD(a, b) == IF b = 0 THEN a ELSE GCD(b, a % b)

Rat(n, d) ==
    LET g == GCD(Abs(n), d)
    IN  [n |-> n \div g, d |-> d \div g]

Num(i) == [n |-> i, d |-> 1]

NaN == [n |-> 0, d |-> 0]

IsNaN(x) == x.d = 0

\* IEEE comparisons: every comparison with NaN is false
Leq(x, y) == ~IsNaN(x) /\ ~IsNaN(y) /\ x.n * y.d <= y.n * x.d

Geq(x, y) == Leq(y, x)

Lt(x, y) == ~IsNaN(x) /\ ~IsNaN(y) /\ x.n * y.d < y.n * x.d

Plus(x, y) == Rat(x.n * y.d + y.n * x.d, x.d * y.d)

DivInt(x, k) == IF IsNaN(x) THEN NaN ELSE Rat(x.n, x.d * k)

RECURSIVE SumSeq(_)
SumSeq(s) == IF s = <<>> THEN Num(0) ELSE Plus(s[1], SumSeq(Tail(s)))

RECURSIVE MaxSeq(_)
MaxSeq(s) ==
    IF Len(s) = 1 THEN s[1]
    ELSE LET m == MaxSeq(Tail(s)) IN IF Lt(s[1], m) THEN m ELSE s[1]

\* pandas Series.mean(): NaN for an empty selection
SeriesMean(s) == IF s = <<>> THEN NaN ELSE DivInt(SumSeq(s), Len(s))

\* pandas Series.max(): NaN for an empty column
SeriesMax(s) == IF s = <<>> THEN NaN ELSE MaxSeq(s)

\* format spec ".2f": correctly rounded to hundredths, ties to even, the sign
\* kept also when the magnitude rounds to zero; "nan" for NaN
Format2f(x) ==
    IF IsNaN(x) THEN [nan |-> TRUE, neg |-> FALSE, cents |-> 0]
    ELSE LET a == 100 * Abs(x.n)
             q == a \div x.d
             r == a - q * x.d
             c == IF 2 * r > x.d THEN q + 1
                  ELSE IF 2 * r < x.d THEN q
                  ELSE IF q % 2 = 0 THEN q ELSE q + 1
         IN  [nan |-> FALSE, neg |-> x.n < 0, cents |-> c]

\* float(text) of the line edits: ok = FALSE stands for ValueError
ParseFloat(t) ==
    CASE t = "0" -> [ok |-> TRUE, val |-> Num(0)]
      [] t = "1" -> [ok |-> TRUE, val |-> Num(1)]
      [] t = "2" -> [ok |-> TRUE, val |-> Num(2)]
      [] t = "nan" -> [ok |-> TRUE, val |-> NaN]
      [] OTHER -> [ok |-> FALSE, val |-> NaN]

(***************************************************************************)
(* CSV files offered to the file dialog                                    *)
(***************************************************************************)
Cells == Times \X Thrusts

RowSeqs(k) == UNION {[1..m -> Cells] : m \in 0..k}

CanonicalHeader == <<"time", "thrust">>

AliasHeaders ==
    { <<"Time (s)", "Thrust (ozf)">>, <<"time", "Thrust (ozf)">>,
      <<"Time (s)", "thrust">> }

BadHeaders ==
    { <<"Time", "thrust">>, <<"time", "Thrust (lbf)">>, <<"t", "f">> }

\* hand-picked row lists, offered under every header: empty, one row, rows out
\* of time order, and three rows with distinct times
OtherRows ==
    { <<>>, << <<1, 24>> >>, << <<2, -8>>, <<0, 24>> >>,
      << <<0, -8>>, <<1, 24>>, <<2, 24>> >> }

Unreadable == [readable |-> FALSE, header |-> <<>>, rows |-> <<>>]

Files ==
    {Unreadable}
    \cup {[readable |-> TRUE, header |-> CanonicalHeader, rows |-> r] :
             r \in RowSeqs(MaxRows)}
    \cup {[readable |-> TRUE, header |-> h, rows |-> r] :
             h \in {CanonicalHeader} \cup AliasHeaders \cup BadHeaders,
             r \in OtherRows}

(***************************************************************************)
(* DataFrame                                                               *)
(***************************************************************************)
None == [tag |-> "None", columns |-> <<>>, rows |-> <<>>]

\* pd.read_csv: header row becomes the columns, every cell is parsed
read_csv(f) ==
    [tag |-> "DataFrame",
     columns |-> f.header,
     rows |-> [i \in 1..Len(f.rows) |->
                  [j \in 1..Len(f.rows[i]) |-> Num(f.rows[i][j])]]]

RenameOne_timeOnly(c) == IF c = "Time (s)" THEN "time" ELSE c

RenameOne(c) ==
    IF c = "Time (s)" THEN "time"
    ELSE IF c = "Thrust (ozf)" THEN "thrust"
    ELSE c

rename(d) ==
    [d EXCEPT !.columns = [j \in 1..Len(d.columns) |-> RenameOne(d.columns[j])]]

HasColumn(d, c) == \E j \in 1..Len(d.columns) : d.columns[j] = c

ColIndex(d, c) == CHOOSE j \in 1..Len(d.columns) : d.columns[j] = c

\* d[c]
Column(d, c) == [i \in 1..Len(d.rows) |-> d.rows[i][ColIndex(d, c)]]

\* d[c] = vals: replaces the column when it exists, appends it otherwise
SetColumn(d, c, vals) ==
    IF HasColumn(d, c)
    THEN [d EXCEPT !.rows = [i \in 1..Len(d.rows) |->
                                [d.rows[i] EXCEPT ![ColIndex(d, c)] = vals[i]]]]
    ELSE [d EXCEPT !.columns = Append(d.columns, c),
                   !.rows = [i \in 1..Len(d.rows) |-> Append(d.rows[i], vals[i])]]

MissingRequired(d) == ~HasColumn(d, "time") \/ ~HasColumn(d, "thrust")

(***************************************************************************)
(* Widgets                                                                 *)
(***************************************************************************)
EmptyLabel == [kind |-> "", text |-> Format2f(Num(0)), unit |-> ""]

NoDataLabel == [kind |-> "No data in range!", text |-> Format2f(Num(0)), unit |-> ""]

MaxText(x, unit) == [kind |-> "max", text |-> Format2f(x), unit |-> unit]

AvgText(x) == [kind |-> "Average Thrust", text |-> Format2f(x), unit |-> "N"]

EmptyAxes ==
    [line |-> FALSE, legend |-> <<"", "">>, xlabel |-> "", ylabel |-> <<"", "">>]

Axes(legend, ylabel) ==
    [line |-> TRUE, legend |-> legend, xlabel |-> "Time (s)", ylabel |-> ylabel]

Upper(u) == IF u = "ozf" THEN "OZF" ELSE "LBF"

\* an exception no handler catches leaves the slot; PyQt5 (5.5 and later, the
\* only releases there are for a Python that has f-strings) then aborts the
\* process, no excepthook being installed
Uncaught == crashed' = TRUE

(***************************************************************************)
(* __init__                                                                *)
(***************************************************************************)
Init ==
    /\ data = None
    /\ current_unit = "ozf"
    /\ max_label = EmptyLabel
    /\ avg_result_label = EmptyLabel
    /\ plot = EmptyAxes
    /\ dialog = ""
    /\ crashed = FALSE

(***************************************************************************)
(* Handlers                                                                *)
(***************************************************************************)
NoData_never(d) == FALSE

\* "if self.data is None": the guard that opens toggle_units,
\* calculate_average and show_dataframe
NoData(d) == d = None

LoadFirst == "Please load a CSV file first!"

LoadFailedMsg == "Failed to load CSV"

MissingColumnsMsg == "CSV must contain 'time' and 'thrust' columns!"

InvalidRangeMsg == "Start time must be less than end time!"

InvalidNumbersMsg == "Please enter valid numbers for the time range."

NextUnit(u) == IF u = "ozf" THEN "lbf" ELSE "ozf"

\* right-hand side of the assignment to the converted column when the unit
\* shown before the click is u
ConvertedValues(d, u) ==
    IF u = "ozf"
    THEN [i \in 1..Len(d.rows) |-> DivInt(Column(d, "thrust")[i], 16)]
    ELSE Column(d, "thrust")

ToggleTarget_inPlace == "thrust"

\* the column toggle_units assigns to
ToggleTarget == "thrust_converted"

\* toggle_units on a frame that has the time and thrust columns
Toggled(d, u) ==
    LET d2 == SetColumn(d, ToggleTarget, ConvertedValues(d, u))
        u2 == NextUnit(u)
    IN  [data |-> d2,
         current_unit |-> u2,
         plot |-> Axes(<<"Thrust vs Time", Upper(u2)>>, <<"Thrust", u2>>),
         max_label |-> MaxText(SeriesMax(Column(d2, "thrust_converted")), u2)]

toggle_units ==
    /\ ~crashed
    /\ IF NoData(data)
       THEN /\ dialog' = LoadFirst
            /\ UNCHANGED <<data, current_unit, max_label, avg_result_label, plot, crashed>>
       ELSE IF ~HasColumn(data, "thrust")
       THEN \* KeyError on self.data['thrust'], after the unit was switched
            /\ current_unit' = NextUnit(current_unit)
            /\ dialog' = ""
            /\ Uncaught
            /\ UNCHANGED <<data, max_label, avg_result_label, plot>>
       ELSE IF ~HasColumn(data, "time")
       THEN \* KeyError on self.data['time'], after ax.clear()
            /\ current_unit' = NextUnit(current_unit)
            /\ data' = SetColumn(data, ToggleTarget, ConvertedValues(data, current_unit))
            /\ plot' = EmptyAxes
            /\ dialog' = ""
            /\ Uncaught
            /\ UNCHANGED <<max_label, avg_result_label>>
       ELSE LET t == Toggled(data, current_unit)
            IN  /\ data' = t.data
                /\ current_unit' = t.current_unit
                /\ plot' = t.plot
                /\ max_label' = t.max_label
                /\ dialog' = ""
                /\ UNCHANGED <<avg_result_label, crashed>>

\* the frame load_csv holds once the required columns were found
Loaded(f) ==
    LET d == rename(read_csv(f))
    IN  SetColumn(d, "thrust_converted", Column(d, "thrust"))

\* the file dialog was dismissed: "if not file_path: return"
LoadCancelled ==
    /\ ~crashed
    /\ dialog' = ""
    /\ UNCHANGED <<data, current_unit, max_label, avg_result_label, plot, crashed>>

LoadFile(f) ==
    /\ ~crashed
    /\ IF ~f.readable
       THEN \* pd.read_csv raises before self.data is assigned
            /\ dialog' = LoadFailedMsg
            /\ UNCHANGED <<data, current_unit, max_label, avg_result_label, plot, crashed>>
       ELSE IF MissingRequired(rename(read_csv(f)))
       THEN /\ data' = rename(read_csv(f))
            /\ dialog' = MissingColumnsMsg
            /\ UNCHANGED <<current_unit, max_label, avg_result_label, plot, crashed>>
       ELSE /\ data' = Loaded(f)
            /\ plot' = Axes(<<"Thrust vs Time", "ozf">>, <<"Thrust", "ozf">>)
            /\ max_label' = MaxText(SeriesMax(Column(Loaded(f), "thrust")), "ozf")
            /\ dialog' = ""
            /\ UNCHANGED <<current_unit, avg_result_label, crashed>>

load_csv == LoadCancelled \/ \E f \in Files : LoadFile(f)

InvalidRange_strict(s, e) == Lt(e, s)

\* "if start_time >= end_time"
InvalidRange(s, e) == Geq(s, e)

InRange_openEnd(t, s, e) == Geq(t, s) /\ Lt(t, e)

\* the mask: (time >= start_time) & (time <= end_time)
InRange(t, s, e) == Geq(t, s) /\ Leq(t, e)

AvgColumn_converted == "thrust_converted"

\* the column calculate_average takes the mean of
AvgColumn == "thrust"

\* self.data.loc[mask, AvgColumn]
Masked(d, s, e) ==
    LET kept == SelectSeq(d.rows, LAMBDA r : InRange(r[ColIndex(d, "time")], s, e))
    IN  [i \in 1..Len(kept) |-> kept[i][ColIndex(d, AvgColumn)]]

avg_thrust(d, s, e) == SeriesMean(Masked(d, s, e))

AvgLabel_noNanCheck(avg) == AvgText(avg)

\* "if np.isnan(avg_thrust)" and the two texts of the result label
AvgLabel(avg) == IF IsNaN(avg) THEN NoDataLabel ELSE AvgText(avg)

calculate_average(start_text, end_text) ==
    /\ ~crashed
    /\ IF NoData(data)
       THEN /\ dialog' = LoadFirst
            /\ UNCHANGED <<data, current_unit, max_label, avg_result_label, plot, crashed>>
       ELSE IF ~ParseFloat(start_text).ok \/ ~ParseFloat(end_text).ok
       THEN /\ dialog' = InvalidNumbersMsg
            /\ UNCHANGED <<data, current_unit, max_label, avg_result_label, plot, crashed>>
       ELSE LET s == ParseFloat(start_text).val
                e == ParseFloat(end_text).val
            IN  IF InvalidRange(s, e)
                THEN /\ dialog' = InvalidRangeMsg
                     /\ UNCHANGED <<data, current_unit, max_label, avg_result_label,
                                    plot, crashed>>
                ELSE IF ~HasColumn(data, "time") \/ ~HasColumn(data, AvgColumn)
                THEN \* KeyError, which "except ValueError" does not catch
                     /\ dialog' = ""
                     /\ Uncaught
                     /\ UNCHANGED <<data, current_unit, max_label, avg_result_label, plot>>
                ELSE /\ avg_result_label' = AvgLabel(avg_thrust(data, s, e))
                     /\ dialog' = ""
                     /\ UNCHANGED <<data, current_unit, max_label, plot, crashed>>

\* the viewer window is a local of the handler: nothing of it is kept
show_dataframe ==
    /\ ~crashed
    /\ dialog' = IF NoData(data) THEN LoadFirst ELSE ""
    /\ UNCHANGED <<data, current_unit, max_label, avg_result_label, plot, crashed>>

Next ==
    \/ load_csv
    \/ toggle_units
    \/ \E a \in Texts, b \in Texts : calculate_average(a, b)
    \/ show_dataframe

Spec == Init /\ [][Next]_vars

(***************************************************************************)
(* Vocabulary of the properties                                            *)
(***************************************************************************)
\* a Series is held: a frame with the time, thrust and converted columns
HasSeries ==
    /\ data.tag = "DataFrame"
    /\ HasColumn(data, "time")
    /\ HasColumn(data, "thrust")
    /\ HasColumn(data, "thrust_converted")

\* the samples of a frame, in row order
Samples(d) ==
    [i \in 1..Len(d.rows) |-> <<Column(d, "time")[i], Column(d, "thrust")[i]>>]

\* everything of a frame but the converted column
Native(d) ==
    [columns |-> SelectSeq(d.columns, LAMBDA c : c # "thrust_converted"),
     cells |-> [i \in 1..Len(d.rows) |->
                  [j \in {k \in 1..Len(d.columns) : d.columns[k] # "thrust_converted"}
                      |-> d.rows[i][j]]]]

\* rows whose time lies in the closed window [s, e]
Window(d, s, e) ==
    {i \in 1..Len(d.rows) :
        LET t == Column(d, "time")[i]
        IN  t.n * s.d >= s.n * t.d /\ t.n * e.d <= e.n * t.d}

RECURSIVE ThrustSum(_, _)
ThrustSum(d, S) ==
    IF S = {} THEN 0
    ELSE LET i == CHOOSE k \in S : TRUE
         IN  Column(d, "thrust")[i].n + ThrustSum(d, S \ {i})

\* arithmetic mean of the native (integer-valued) thrust over a set of rows
ArithMean(d, S) == Rat(ThrustSum(d, S), Cardinality(S))

Parsed(t) == ParseFloat(t).val

BothNumeric(a, b) == ParseFloat(a).ok /\ ParseFloat(b).ok

\* a step of load_csv on file f; the conjuncts before LoadFile(f) follow from
\* it and come first so that evaluation can stop early
LoadStep(f) ==
    /\ current_unit' = current_unit
    /\ avg_result_label' = avg_result_label
    /\ f.readable => Len(data'.rows) = Len(f.rows)
    /\ LoadFile(f)

SomeCalculate == \E a \in Texts, b \in Texts : calculate_average(a, b)

\* what the header row of a file has to offer
OffersTime(h) == \E j \in 1..Len(h) : h[j] \in {"time", "Time (s)"}

OffersThrust(h) == \E j \in 1..Len(h) : h[j] \in {"thrust", "Thrust (ozf)"}

FileSamples(f) ==
    LET tj == CHOOSE j \in 1..Len(f.header) : f.header[j] \in {"time", "Time (s)"}
        fj == CHOOSE j \in 1..Len(f.header) : f.header[j] \in {"thrust", "Thrust (ozf)"}
    IN  [i \in 1..Len(f.rows) |-> <<Num(f.rows[i][tj]), Num(f.rows[i][fj])>>]

(***************************************************************************)
(* Properties                                                              *)
(***************************************************************************)

\* C1: a load_csv call that fails (read error, or required columns missing
\* after renaming) while a Series is held leaves the held frame as it was.
C1_FailedLoadKeepsSeries ==
    [][\A f \in Files :
          (HasSeries /\ dialog' \in {LoadFailedMsg, MissingColumnsMsg} /\ LoadStep(f))
              => data' = data]_vars

\* C2: with a frame loaded and two numeric bounds with start >= end,
\* calculate_average shows the invalid-range warning and leaves the average
\* label and the frame as they were.
C2_InvalidRangeRejected ==
    [][\A a \in Texts, b \in Texts :
          (BothNumeric(a, b) /\ ~IsNaN(Parsed(a)) /\ ~IsNaN(Parsed(b))
             /\ Parsed(a).n * Parsed(b).d >= Parsed(b).n * Parsed(a).d
             /\ HasSeries /\ calculate_average(a, b))
              => /\ dialog' = InvalidRangeMsg
                 /\ avg_result_label' = avg_result_label
                 /\ data' = data]_vars

C2_Witness ==
    /\ HasSeries
    /\ dialog = InvalidRangeMsg
    /\ avg_result_label.kind = "Average Thrust"

\* C3: for start < end with at least one sample in [start, end], the label
\* shows the arithmetic mean of the native thrust over exactly the rows with
\* start <= time <= end, both boundaries included.
C3_MeanOverClosedWindow ==
    [][\A a \in Texts, b \in Texts :
          (BothNumeric(a, b) /\ Lt(Parsed(a), Parsed(b))
             /\ HasSeries /\ calculate_average(a, b)
             /\ Window(data, Parsed(a), Parsed(b)) # {})
              => avg_result_label' =
                     AvgText(ArithMean(data, Window(data, Parsed(a), Parsed(b))))]_vars

C3_Witness ==
    /\ HasSeries
    /\ \E a \in Texts, b \in Texts :
          LET W == Window(data, Parsed(a), Parsed(b))
          IN  /\ BothNumeric(a, b) /\ Lt(Parsed(a), Parsed(b))
              /\ \E i \in W : Column(data, "time")[i] = Parsed(b)
              /\ \E i \in W : Column(data, "time")[i] = Parsed(a)
              /\ W # 1..Len(data.rows)
              /\ avg_result_label = AvgText(ArithMean(data, W))
              /\ avg_result_label # AvgText(ArithMean(data, 1..Len(data.rows)))

\* C4: for start < end the label reads "No data in range!" exactly when no
\* sample lies in [start, end]; that outcome is neither a numeric average
\* nor the invalid-range warning.
C4_EmptyRangeOutcome ==
    [][\A a \in Texts, b \in Texts :
          (BothNumeric(a, b) /\ Lt(Parsed(a), Parsed(b))
             /\ HasSeries /\ calculate_average(a, b))
              => /\ (Window(data, Parsed(a), Parsed(b)) = {})
                        <=> (avg_result_label' = NoDataLabel)
                 /\ (Window(data, Parsed(a), Parsed(b)) = {})
                        => avg_result_label'.kind # "Average Thrust"
                 /\ dialog' # InvalidRangeMsg]_vars

C4_Witness ==
    /\ HasSeries
    /\ Len(data.rows) > 0
    /\ avg_result_label = NoDataLabel
    /\ dialog = ""

\* C5: a readable file is refused for missing columns exactly when its
\* header offers no time column or no thrust column under either name, and
\* an accepted file yields the samples of its rows whatever names it used.
C5_MissingColumnsExactly ==
    [][\A f \in Files :
          LoadStep(f)
              => /\ (dialog' = MissingColumnsMsg)
                        <=> (f.readable /\ ~(OffersTime(f.header) /\ OffersThrust(f.header)))
                 /\ (f.readable /\ OffersTime(f.header) /\ OffersThrust(f.header))
                        => /\ dialog' = ""
                           /\ Samples(data') = FileSamples(f)]_vars

C5_Witness ==
    /\ dialog = MissingColumnsMsg
    /\ data.tag = "DataFrame"
    /\ HasColumn(data, "time")
    /\ ~HasColumn(data, "thrust")

\* C6: with a Series held, toggle_units, calculate_average and
\* show_dataframe leave every column but the converted one, the row count
\* and the row order as they were; the last two change neither the frame nor
\* the unit.
C6_NativeDataUntouched ==
    [][(HasSeries /\ (toggle_units \/ SomeCalculate \/ show_dataframe))
          => /\ Native(data') = Native(data)
             /\ data'.columns = data.columns
             /\ Len(data'.rows) = Len(data.rows)
             /\ (SomeCalculate \/ show_dataframe)
                    => (data' = data /\ current_unit' = current_unit)]_vars

C6_Witness ==
    /\ HasSeries
    /\ current_unit = "lbf"
    /\ plot.legend = <<"Thrust vs Time", "LBF">>
    /\ Column(data, "thrust_converted") # Column(data, "thrust")
    /\ Len(data.rows) > 1

\* C7: with a Series held, two consecutive toggle_units calls restore every
\* value of the converted column and the display unit.
C7_ToggleRoundTrip ==
    (HasSeries /\ ~crashed)
        => LET t1 == Toggled(data, current_unit)
               t2 == Toggled(t1.data, t1.current_unit)
           IN  /\ Column(t2.data, "thrust_converted") = Column(data, "thrust_converted")
               /\ t2.current_unit = current_unit

\* C8: whenever a Series is held, unit 'lbf' goes with a converted column of
\* thrust / 16 and unit 'ozf' with a converted column equal to thrust.
C8_UnitMatchesColumn ==
    HasSeries
        => /\ current_unit = "lbf"
                  => Column(data, "thrust_converted") = ConvertedValues(data, "ozf")
           /\ current_unit = "ozf"
                  => Column(data, "thrust_converted") = Column(data, "thrust")

\* C9: toggle_units does not change what calculate_average yields for any
\* pair of bounds, so the average is the same after any number of toggles.
C9_AverageIgnoresUnit ==
    [][(HasSeries /\ toggle_units)
          => \A a \in Texts, b \in Texts :
                AvgLabel(avg_thrust(data', Parsed(a), Parsed(b)))
                    = AvgLabel(avg_thrust(data, Parsed(a), Parsed(b)))]_vars

C9_Witness ==
    /\ HasSeries
    /\ current_unit = "lbf"
    /\ \E a \in Texts, b \in Texts :
          LET W == Window(data, Parsed(a), Parsed(b))
          IN  /\ BothNumeric(a, b) /\ Lt(Parsed(a), Parsed(b))
              /\ W # {}
              /\ avg_result_label = AvgText(ArithMean(data, W))
              /\ avg_result_label # AvgText(DivInt(ArithMean(data, W), 16))
    /\ Column(data, "thrust_converted") = ConvertedValues(data, "ozf")

\* C10: while data is None, toggle_units, calculate_average and
\* show_dataframe only show the load-first warning; data stays None, the
\* unit stays 'ozf' and both result labels stay empty.
C10_NothingBeforeLoad ==
    /\ [](data = None
            => current_unit = "ozf" /\ max_label = EmptyLabel
               /\ avg_result_label = EmptyLabel)
    /\ [][(data = None /\ (toggle_units \/ SomeCalculate \/ show_dataframe))
            => /\ dialog' = LoadFirst
               /\ UNCHANGED <<data, current_unit, max_label, avg_result_label,
                              plot, crashed>>]_vars

C10_Witness ==
    /\ data = None
    /\ dialog = LoadFirst

====
